---- MODULE Spec2Model ----
(***************************************************************************)
(* Model of the two build-support utilities of the repository:             *)
(*   buildscripts/bazel_rules_mongo/utils/evergreen_git.py  (diff resolver) *)
(*   buildscripts/install_bazel.py                          (bootstrapper)  *)
(* Python values are modelled as tagged records, strings as TLA+ strings   *)
(* on which startswith / endswith / split are computed character by        *)
(* character, and a call's outcome as a record that says whether the call  *)
(* returned or raised, together with the commands it executed.             *)
(***************************************************************************)
EXTENDS Integers, Sequences, FiniteSets, TLC

VARIABLES
    \* the repository and the process using evergreen_git
    remotes,    \* repo.remotes: sequence of [name, url], in configured order
    branches,   \* repo.branches: sequence of local branch names
    refs,       \* repo.refs: function from reference name to commit number
    head,       \* repo.head.commit: number of the commit HEAD points to
    worktree,   \* version of the working tree
    index,      \* version of the working tree the index holds
    file,       \* the expansions file on disk, per path
    expCache,   \* functools.cache of get_expansions: key -> returned value
    diffCache,  \* functools.cache of get_diff_revision: key -> returned value
    computed,   \* history: revision computations executed, per (file, branch)
    expRet,     \* history: the value get_expansions first returned, per path
    diffRet,    \* history: the value get_diff_revision first returned, per key
    pairRet,    \* history: the revision first returned, per (file, branch)
    steps,      \* number of steps taken so far
    call,       \* the last call and its outcome
    \* the machine install_bazel runs on
    machine,    \* platform.machine()
    bazelisk,   \* the file <dir>/bazelisk
    buildozer,  \* the file <dir>/buildozer
    pc,         \* where install_bazel stands
    dl,         \* the running (or last) _download_path_with_retry call
    outcome     \* how the last install_bazel call ended

gitVars == <<remotes, branches, refs, head, worktree, index, file, expCache, diffCache,
             computed, expRet, diffRet, pairRet, steps, call>>

installVars == <<machine, bazelisk, buildozer, pc, dl, outcome>>

vars == <<gitVars, installVars>>

(***************************************************************************)
(* Bounds                                                                  *)
(***************************************************************************)
MaxRemotes == 2
MaxBranches == 2
MaxSteps == 3

(***************************************************************************)
(* Python strings                                                          *)
(***************************************************************************)
StartsWith(s, p) == Len(s) >= Len(p) /\ SubSeq(s, 1, Len(p)) = p

EndsWith(s, p) == Len(s) >= Len(p) /\ SubSeq(s, Len(s) - Len(p) + 1, Len(s)) = p

\* Positions of the one-character separator sep in s, in increasing order.
RECURSIVE SepPositions(_, _, _)
SepPositions(s, sep, i) ==
    IF i > Len(s) THEN <<>>
    ELSE IF SubSeq(s, i, i) = sep THEN <<i>> \o SepPositions(s, sep, i + 1)
    ELSE SepPositions(s, sep, i + 1)

\* str.split(sep): the pieces between the separators (empty pieces kept).
Split(s, sep) ==
    LET pos == SepPositions(s, sep, 1)
        n == Len(pos)
        lo(k) == IF k = 1 THEN 1 ELSE pos[k - 1] + 1
        hi(k) == IF k = n + 1 THEN Len(s) ELSE pos[k] - 1
    IN [k \in 1..(n + 1) |-> SubSeq(s, lo(k), hi(k))]

\* Python's negative index: seq[-k].
FromEnd(seq, k) == seq[Len(seq) - k + 1]

(***************************************************************************)
(* Python values                                                           *)
(***************************************************************************)
PyNone == [t |-> "none", v |-> ""]
PyStr(s) == [t |-> "str", v |-> s]
PyBool(b) == [t |-> "bool", v |-> IF b THEN "True" ELSE "False"]
\* A git.Head object (a local branch); str() of it is its name.
PyHead(name) == [t |-> "Head", v |-> name]

\* bool(x) as Python evaluates it in `if x` and `assert x`.
Truthy(x) ==
    CASE x.t = "none" -> FALSE
      [] x.t = "bool" -> x.v = "True"
      [] x.t = "str" -> x.v # ""
      [] OTHER -> TRUE

(***************************************************************************)
(* get_mongodb_remote                                                      *)
(***************************************************************************)
remote_prefixes == <<"http://", "https://", "ssh://", "git@">>

AllowedOwners == {"10gen", "mongodb", "evergreen-ci", "mongodb-ets", "realm", "mongodb-js"}

NoRemote == [name |-> "", url |-> ""]

\* HasRemotePrefix with the SCP-style prefix "git@" left out of the tuple.
HasRemotePrefixWithoutScp(url) ==
    \E i \in 1..(Len(remote_prefixes) - 1) : StartsWith(url, remote_prefixes[i])

HasRemotePrefix(url) == \E i \in 1..Len(remote_prefixes) : StartsWith(url, remote_prefixes[i])

StripGitSuffix(url) == IF EndsWith(url, ".git") THEN SubSeq(url, 1, Len(url) - 4) ELSE url

OwnerOf(parts) == FromEnd(Split(FromEnd(parts, 2), ":"), 1)

\* The for loop over the remotes, from position i on: the remote picked by
\* the break, a raise of the assert, or NoRemote when the loop runs out.
RECURSIVE PickLoop(_, _)
PickLoop(rs, i) ==
    IF i > Len(rs) THEN [kind |-> "return", exc |-> "", remote |-> NoRemote]
    ELSE
        LET url == rs[i].url IN
        IF ~HasRemotePrefix(url) THEN PickLoop(rs, i + 1)
        ELSE
            LET parts == Split(StripGitSuffix(url), "/") IN
            IF Len(parts) < 2
            THEN [kind |-> "raise", exc |-> "AssertionError", remote |-> NoRemote]
            ELSE IF OwnerOf(parts) \in AllowedOwners
            THEN [kind |-> "return", exc |-> "", remote |-> rs[i]]
            ELSE PickLoop(rs, i + 1)

\* next(repo.remotes): repo.remotes is a list (GitPython's IterableList), and
\* the builtin next() of a list, empty or not, raises TypeError.
NextOfRemotes(rs) == [kind |-> "raise", exc |-> "TypeError", remote |-> NoRemote]

\* `if picked_remote is None: raise RuntimeError(...)`, then the return.
CheckPicked(picked) ==
    IF picked.kind = "raise" THEN picked
    ELSE IF picked.remote = NoRemote
    THEN [kind |-> "raise", exc |-> "RuntimeError", remote |-> NoRemote]
    ELSE picked

\* After the loop: the fallback to the first remote when nothing was picked.
Fallback(rs, picked) ==
    IF picked.kind = "raise" THEN picked
    ELSE IF picked.remote = NoRemote THEN CheckPicked(NextOfRemotes(rs))
    ELSE CheckPicked(picked)

get_mongodb_remote(rs) == Fallback(rs, PickLoop(rs, 1))

(***************************************************************************)
(* get_remote_branch_ref                                                   *)
(***************************************************************************)
\* Commit n of the (linear) history, as the hex identifier git prints.
Sha(n) == "c" \o ToString(n)

Min(a, b) == IF a <= b THEN a ELSE b

\* git merge-base of two commits of a linear history.
merge_base(local_head, remote_head) == Sha(Min(local_head, remote_head))

\* The loop `for branch in repo.branches`: the loop variable is the
\* function's own variable `branch`, so each iteration rebinds it to the Head
\* object it visits, and the body rebinds it to the name on a match.
RECURSIVE BranchLoop(_, _, _)
BranchLoop(bs, i, branch) ==
    IF i > Len(bs) THEN branch
    ELSE IF bs[i] \in {"main", "master"} THEN PyStr(bs[i])
    ELSE BranchLoop(bs, i + 1, PyHead(bs[i]))

Raise(exc, msg, trace) == [kind |-> "raise", exc |-> exc, msg |-> msg, value |-> "", trace |-> trace]

Return(value, trace) == [kind |-> "return", exc |-> "", msg |-> "", value |-> value, trace |-> trace]

\* repo.refs[name], then the merge base of HEAD and the commit it points to.
MergeBaseOfRef(rf, local_head, name) ==
    IF name \notin DOMAIN rf
    THEN Raise("IndexError", "", <<"get_mongodb_remote", "refs[" \o name \o "]">>)
    ELSE Return(merge_base(local_head, rf[name]),
                <<"get_mongodb_remote", "refs[" \o name \o "]", "merge_base">>)

\* With the remote picked: the reference f"{picked_remote.name}/{branch}".
RefOfRemote(rf, local_head, branch, picked) ==
    IF picked.kind = "raise" THEN Raise(picked.exc, "", <<"get_mongodb_remote">>)
    ELSE MergeBaseOfRef(rf, local_head, picked.remote.name \o "/" \o branch.v)

\* With the branch settled: the check that it is not None, then the remote.
RefOfBranch(rs, rf, local_head, branch) ==
    IF branch = PyNone
    THEN Raise("RuntimeError", "Could not infer correct branch name", <<>>)
    ELSE RefOfRemote(rf, local_head, branch, get_mongodb_remote(rs))

get_remote_branch_ref(rs, bs, rf, local_head, branchArg) ==
    RefOfBranch(rs, rf, local_head,
                IF branchArg = PyNone THEN BranchLoop(bs, 1, PyNone) ELSE branchArg)

(***************************************************************************)
(* functools.cache                                                         *)
(***************************************************************************)
\* The cache key of a call: its positional arguments and its keyword
\* arguments as passed, so f(), f(None) and f(x=None) have three keys.
MakeKey(args, kwds) == <<args, kwds>>

\* CacheHit of a function that lost its @cache decorator.
CacheHitNever(cache, key) == FALSE

CacheHit(cache, key) == key \in DOMAIN cache

\* CacheStore of a cache that keeps nothing.
CacheStoreNothing(cache, key, res) == cache

\* Only a call that returned is stored; a call that raised leaves no entry.
CacheStore(cache, key, res) ==
    IF res.kind = "return"
    THEN [k \in (DOMAIN cache) \cup {key} |-> IF k = key THEN res.value ELSE cache[k]]
    ELSE cache

\* The value a parameter is bound to: positional, else keyword, else the
\* default None.
BindArg(c, pos, name) ==
    IF Len(c.args) >= pos THEN c.args[pos]
    ELSE IF \E i \in 1..Len(c.kwds) : c.kwds[i].name = name
    THEN (c.kwds[CHOOSE i \in 1..Len(c.kwds) : c.kwds[i].name = name]).val
    ELSE PyNone

InTrace(t, c) == \E i \in 1..Len(t) : t[i] = c

(***************************************************************************)
(* get_expansions                                                          *)
(***************************************************************************)
\* The mapping yaml.safe_load returns; a key the file lacks reads as None.
Dict(ip, rev) == [t |-> "dict", is_patch |-> ip, revision |-> rev]

NoneExp == [t |-> "none", is_patch |-> PyNone, revision |-> PyNone]

Absent == [exists |-> FALSE, data |-> NoneExp]

OnDisk(d) == [exists |-> TRUE, data |-> d]

Paths == {"exp.yml"}

ExpRaise(exc, msg, trace) == [kind |-> "raise", exc |-> exc, msg |-> msg, value |-> NoneExp, trace |-> trace]

ExpReturn(value, trace) == [kind |-> "return", exc |-> "", msg |-> "", value |-> value, trace |-> trace]

\* The body of get_expansions, run on a cache miss.
get_expansions(f, path) ==
    IF ~Truthy(path) THEN ExpReturn(NoneExp, <<>>)
    ELSE IF path.v \notin DOMAIN f \/ ~f[path.v].exists
    THEN ExpRaise("RuntimeError", "Expansions file not found", <<"os.path.exists">>)
    ELSE ExpReturn(f[path.v].data, <<"os.path.exists", "open">>)

\* get_expansions(path) through its cache: the outcome and the cache after.
StoreExpansions(cache, key, r) ==
    [res |-> r, cache |-> CacheStore(cache, key, r), hit |-> FALSE]

LookupExpansions(cache, f, path, key) ==
    IF CacheHit(cache, key)
    THEN [res |-> ExpReturn(cache[key], <<>>), cache |-> cache, hit |-> TRUE]
    ELSE StoreExpansions(cache, key, get_expansions(f, path))

CachedExpansions(cache, f, path) == LookupExpansions(cache, f, path, MakeKey(<<path>>, <<>>))

(***************************************************************************)
(* get_diff_revision                                                       *)
(***************************************************************************)
\* git rev-parse HEAD^1: the root commit has no parent.
RevParseParent(h) ==
    IF h <= 1 THEN Raise("GitCommandError", "", <<"git rev-parse HEAD^1">>)
    ELSE Return(Sha(h - 1), <<"git rev-parse HEAD^1">>)

\* DiffInCI with the `git add .` of the patch branch dropped.
DiffInCIWithoutAdd(e, h, wt, ix) ==
    IF e.t = "none"
    THEN [res |-> Raise("AttributeError", "", <<>>), index |-> ix]
    ELSE IF Truthy(e.is_patch)
    THEN [res |-> IF Truthy(e.revision)
                  THEN Return(e.revision.v, <<>>)
                  ELSE Raise("AssertionError", "ERROR: not able to obtain diff commit", <<>>),
          index |-> ix]
    ELSE [res |-> RevParseParent(h), index |-> ix]

\* DiffInCI with the `git add .` moved before the test of is_patch.
DiffInCIAlwaysAdd(e, h, wt, ix) ==
    IF e.t = "none"
    THEN [res |-> Raise("AttributeError", "", <<>>), index |-> ix]
    ELSE IF Truthy(e.is_patch)
    THEN [res |-> IF Truthy(e.revision)
                  THEN Return(e.revision.v, <<"git add .">>)
                  ELSE Raise("AssertionError", "ERROR: not able to obtain diff commit", <<"git add .">>),
          index |-> wt]
    ELSE [res |-> [RevParseParent(h) EXCEPT !.trace = <<"git add .">> \o @], index |-> wt]

\* The CI branch once the expansions are loaded: the outcome, and the index.
DiffInCI(e, h, wt, ix) ==
    IF e.t = "none"
    THEN [res |-> Raise("AttributeError", "", <<>>), index |-> ix]
    ELSE IF Truthy(e.is_patch)
    THEN [res |-> IF Truthy(e.revision)
                  THEN Return(e.revision.v, <<"git add .">>)
                  ELSE Raise("AssertionError", "ERROR: not able to obtain diff commit", <<"git add .">>),
          index |-> wt]
    ELSE [res |-> RevParseParent(h), index |-> ix]

\* The outcome of the CI branch d, after the expansions load e.
DiffJoin(e, d) ==
    [res |-> [d.res EXCEPT !.trace = e.res.trace \o d.res.trace],
     exp |-> e.res.value, loaded |-> TRUE, expCache |-> e.cache, index |-> d.index]

DiffWithExpansions(e) ==
    IF e.res.kind = "raise"
    THEN [res |-> Raise(e.res.exc, e.res.msg, e.res.trace),
          exp |-> NoneExp, loaded |-> FALSE, expCache |-> e.cache, index |-> index]
    ELSE DiffJoin(e, DiffInCI(e.res.value, head, worktree, index))

\* The body of get_diff_revision, run on a cache miss: the outcome, the
\* expansions it loaded, and the expansions cache and the index after it.
get_diff_revision(ef, br) ==
    IF ef = PyNone
    THEN [res |-> get_remote_branch_ref(remotes, branches, refs, head, br),
          exp |-> NoneExp, loaded |-> FALSE, expCache |-> expCache, index |-> index]
    ELSE DiffWithExpansions(CachedExpansions(expCache, file, ef))

StoreDiff(key, b) ==
    [res |-> b.res, exp |-> b.exp, loaded |-> b.loaded, expCache |-> b.expCache,
     index |-> b.index, diffCache |-> CacheStore(diffCache, key, b.res), hit |-> FALSE]

LookupDiff(c, key) ==
    IF CacheHit(diffCache, key)
    THEN [res |-> Return(diffCache[key], <<>>), exp |-> NoneExp, loaded |-> FALSE,
          expCache |-> expCache, index |-> index, diffCache |-> diffCache, hit |-> TRUE]
    ELSE StoreDiff(key, get_diff_revision(BindArg(c, 1, "expansions_file"),
                                          BindArg(c, 2, "branch")))

\* get_diff_revision through its cache, called as c = [args, kwds].
CachedDiffRevision(c) == LookupDiff(c, MakeKey(c.args, c.kwds))

(***************************************************************************)
(* get_changed_files, get_new_files                                        *)
(***************************************************************************)
\* What git diff --name-only prints for a diff filter: one path per line.
DiffOutput(diff_filter) == IF diff_filter = "ARC" THEN "new.py\n" ELSE "a.py\nnew.py\n"

\* [file for file in files if file]
RECURSIVE NonEmpty(_)
NonEmpty(seq) ==
    IF seq = <<>> THEN <<>>
    ELSE IF Head(seq) = "" THEN NonEmpty(Tail(seq))
    ELSE <<Head(seq)>> \o NonEmpty(Tail(seq))

\* get_changed_files after the diff revision d is resolved.
get_changed_files(d, diff_filter) ==
    IF d.res.kind = "raise" THEN [res |-> d.res, files |-> <<>>]
    ELSE [res |-> [d.res EXCEPT !.trace = Append(d.res.trace, "git diff")],
          files |-> NonEmpty(Split(DiffOutput(diff_filter), "\n"))]

(***************************************************************************)
(* get_file_at_revision                                                    *)
(***************************************************************************)
Contains(s, sub) ==
    \E i \in 1..(Len(s) - Len(sub) + 1) : SubSeq(s, i, i + Len(sub) - 1) = sub

\* The history git show reads: the paths each revision holds.
Tree(rev) ==
    CASE rev = "c1" -> {"a.py"}
      [] rev = "c2" -> {"a.py", "new.py"}
      [] OTHER -> {}

ValidRev(rev) == rev \in {"c1", "c2"}

Blob(f, rev) == "blob of " \o f \o " at " \o rev

\* str() of the GitCommandError GitPython raises for a failed git show.
GitError(f, rev, stderr) ==
    "Cmd('git') failed due to: exit code(128)\n  cmdline: git show " \o rev \o ":" \o f
        \o "\n  stderr: '" \o stderr \o "'"

\* git show rev:f, run where the working tree holds f or not (onDisk).
GitShow(f, rev, onDisk) ==
    IF ~ValidRev(rev)
    THEN [ok |-> FALSE, out |-> "",
          err |-> GitError(f, rev, "fatal: invalid object name '" \o rev \o "'.")]
    ELSE IF f \in Tree(rev)
    THEN [ok |-> TRUE, out |-> Blob(f, rev), err |-> ""]
    ELSE IF onDisk
    THEN [ok |-> FALSE, out |-> "",
          err |-> GitError(f, rev, "fatal: path '" \o f \o "' exists on disk, but not in '" \o rev \o "'")]
    ELSE [ok |-> FALSE, out |-> "",
          err |-> GitError(f, rev, "fatal: path '" \o f \o "' does not exist in '" \o rev \o "'")]

get_file_at_revision(f, rev, g) ==
    IF g.ok THEN [kind |-> "return", exc |-> "", content |-> PyStr(g.out)]
    ELSE IF Contains(g.err, "path '" \o f \o "' does not exist in '" \o rev \o "'")
    THEN [kind |-> "return", exc |-> "", content |-> PyNone]
    ELSE [kind |-> "raise", exc |-> "GitCommandError", content |-> PyNone]

(***************************************************************************)
(* The process: calls into evergreen_git, and the world around it          *)
(***************************************************************************)
NoCall ==
    [n |-> 0, op |-> "", ef |-> PyNone, br |-> PyNone, key |-> MakeKey(<<>>, <<>>),
     kind |-> "", exc |-> "", msg |-> "", value |-> "", trace |-> <<>>, hit |-> FALSE,
     exp |-> NoneExp, files |-> <<>>, remote |-> NoRemote,
     file |-> "", revision |-> "", onDisk |-> FALSE, content |-> PyNone]

\* The commands that compute a diff revision.
Computes(t) ==
    InTrace(t, "merge_base") \/ InTrace(t, "git rev-parse HEAD^1") \/ InTrace(t, "git add .")

Count(p) == IF p \in DOMAIN computed THEN computed[p] ELSE 0

\* History kept beside the program: first write wins.
Remember(h, k, v) ==
    IF k \in DOMAIN h THEN h ELSE [x \in (DOMAIN h) \cup {k} |-> IF x = k THEN v ELSE h[x]]

Bump(h, k) == [x \in (DOMAIN h) \cup {k} |-> IF x = k THEN Count(k) + 1 ELSE h[x]]

\* The history after a get_diff_revision call c (direct or from
\* get_changed_files) with outcome d.
DiffHistory(c, d) ==
    \E ef \in {BindArg(c, 1, "expansions_file")}, br \in {BindArg(c, 2, "branch")} :
        /\ computed' = IF Computes(d.res.trace) THEN Bump(computed, <<ef, br>>) ELSE computed
        /\ diffRet' = IF d.res.kind = "return"
                      THEN Remember(diffRet, MakeKey(c.args, c.kwds), d.res.value) ELSE diffRet
        /\ pairRet' = IF d.res.kind = "return"
                      THEN Remember(pairRet, <<ef, br>>, d.res.value) ELSE pairRet
        /\ expRet' = IF d.loaded THEN Remember(expRet, ef, d.exp) ELSE expRet

Step == steps < MaxSteps /\ steps' = steps + 1

GetExpansions(path) ==
    \E e \in {CachedExpansions(expCache, file, path)} :
    /\ Step
    /\ expCache' = e.cache
    /\ expRet' = IF e.res.kind = "return" THEN Remember(expRet, path, e.res.value) ELSE expRet
    /\ call' = [NoCall EXCEPT !.n = steps + 1, !.op = "get_expansions", !.ef = path,
                              !.kind = e.res.kind, !.exc = e.res.exc, !.msg = e.res.msg,
                              !.trace = e.res.trace, !.hit = e.hit, !.exp = e.res.value]
    /\ UNCHANGED <<remotes, branches, refs, head, worktree, index, file, diffCache,
                   computed, diffRet, pairRet>>
    /\ UNCHANGED installVars

GetDiffRevision(c) ==
    \E d \in {CachedDiffRevision(c)} :
    /\ Step
    /\ expCache' = d.expCache
    /\ diffCache' = d.diffCache
    /\ index' = d.index
    /\ DiffHistory(c, d)
    /\ call' = [NoCall EXCEPT !.n = steps + 1, !.op = "get_diff_revision",
                              !.ef = BindArg(c, 1, "expansions_file"),
                              !.br = BindArg(c, 2, "branch"),
                              !.key = MakeKey(c.args, c.kwds),
                              !.kind = d.res.kind, !.exc = d.res.exc, !.msg = d.res.msg,
                              !.value = d.res.value, !.trace = d.res.trace, !.hit = d.hit,
                              !.exp = d.exp]
    /\ UNCHANGED <<remotes, branches, refs, head, worktree, file>>
    /\ UNCHANGED installVars

\* get_changed_files(ef, br, diff_filter); get_new_files(ef, br) is the same
\* call with the filter "ARC".
GetChangedFiles(op, ef, br, diff_filter) ==
    \E c \in {[args |-> <<ef, br>>, kwds |-> <<>>]} :
    \E d \in {CachedDiffRevision(c)} :
    \E r \in {get_changed_files(d, diff_filter)} :
    /\ Step
    /\ expCache' = d.expCache
    /\ diffCache' = d.diffCache
    /\ index' = d.index
    /\ DiffHistory(c, d)
    /\ call' = [NoCall EXCEPT !.n = steps + 1, !.op = op, !.ef = ef, !.br = br,
                              !.key = MakeKey(c.args, c.kwds),
                              !.kind = r.res.kind, !.exc = r.res.exc, !.msg = r.res.msg,
                              !.value = r.res.value, !.trace = r.res.trace, !.hit = d.hit,
                              !.exp = d.exp, !.files = r.files]
    /\ UNCHANGED <<remotes, branches, refs, head, worktree, file>>
    /\ UNCHANGED installVars

GetRemoteBranchRef(b) ==
    \E r \in {get_remote_branch_ref(remotes, branches, refs, head, b)} :
    /\ Step
    /\ call' = [NoCall EXCEPT !.n = steps + 1, !.op = "get_remote_branch_ref", !.br = b,
                              !.kind = r.kind, !.exc = r.exc, !.msg = r.msg,
                              !.value = r.value, !.trace = r.trace]
    /\ UNCHANGED <<remotes, branches, refs, head, worktree, index, file, expCache, diffCache,
                   computed, expRet, diffRet, pairRet>>
    /\ UNCHANGED installVars

GetMongodbRemote ==
    \E r \in {get_mongodb_remote(remotes)} :
    /\ Step
    /\ call' = [NoCall EXCEPT !.n = steps + 1, !.op = "get_mongodb_remote",
                              !.kind = r.kind, !.exc = r.exc, !.remote = r.remote]
    /\ UNCHANGED <<remotes, branches, refs, head, worktree, index, file, expCache, diffCache,
                   computed, expRet, diffRet, pairRet>>
    /\ UNCHANGED installVars

GetFileAtRevision(f, rev, onDisk) ==
    \E r \in {get_file_at_revision(f, rev, GitShow(f, rev, onDisk))} :
    /\ Step
    /\ call' = [NoCall EXCEPT !.n = steps + 1, !.op = "get_file_at_revision",
                              !.file = f, !.revision = rev, !.onDisk = onDisk,
                              !.kind = r.kind, !.exc = r.exc, !.content = r.content,
                              !.trace = <<"git show">>]
    /\ UNCHANGED <<remotes, branches, refs, head, worktree, index, file, expCache, diffCache,
                   computed, expRet, diffRet, pairRet>>
    /\ UNCHANGED installVars

\* The world: a commit moves HEAD, an edit changes the working tree, and the
\* expansions file is rewritten or removed.
Commit ==
    /\ Step
    /\ head' = head + 1
    /\ UNCHANGED <<remotes, branches, refs, worktree, index, file, expCache, diffCache,
                   computed, expRet, diffRet, pairRet, call>>
    /\ UNCHANGED installVars

EditWorkTree ==
    /\ Step
    /\ worktree' = worktree + 1
    /\ UNCHANGED <<remotes, branches, refs, head, index, file, expCache, diffCache,
                   computed, expRet, diffRet, pairRet, call>>
    /\ UNCHANGED installVars

WriteFile(path, d) ==
    /\ Step
    /\ file[path] # OnDisk(d)
    /\ file' = [file EXCEPT ![path] = OnDisk(d)]
    /\ UNCHANGED <<remotes, branches, refs, head, worktree, index, expCache, diffCache,
                   computed, expRet, diffRet, pairRet, call>>
    /\ UNCHANGED installVars

DeleteFile(path) ==
    /\ Step
    /\ file[path].exists
    /\ file' = [file EXCEPT ![path] = Absent]
    /\ UNCHANGED <<remotes, branches, refs, head, worktree, index, expCache, diffCache,
                   computed, expRet, diffRet, pairRet, call>>
    /\ UNCHANGED installVars

(***************************************************************************)
(* The machine install_bazel runs on, at rest                              *)
(***************************************************************************)
NoFile == [exists |-> FALSE, content |-> "", exec |-> FALSE]

NoDownload == [url |-> "", target |-> "", i |-> 0, ok |-> 0, failed |-> 0, sleeps |-> 0,
               slept |-> 0, status |-> "none"]

InstallAtRest ==
    /\ machine = "x86_64"
    /\ bazelisk = NoFile
    /\ buildozer = NoFile
    /\ pc = "idle"
    /\ dl = NoDownload
    /\ outcome = "none"

(***************************************************************************)
(* Specification of the diff resolver                                      *)
(***************************************************************************)
Patch == Dict(PyBool(TRUE), PyStr("abc123"))
Waterfall == Dict(PyBool(FALSE), PyStr("abc123"))
PatchNoRevision == Dict(PyStr("true"), PyStr(""))

Contents == {Patch, Waterfall, PatchNoRevision}

BranchNames == {"main", "master", "feature"}

RemoteNames == <<"origin", "upstream", "fork", "mirror">>

\* The remotes with the given URLs, named in configured order.
Named(urls) == [i \in 1..Len(urls) |-> [name |-> RemoteNames[i], url |-> urls[i]]]

\* Every remote-tracking reference of the remotes rs, at commit 1.
Tracking(rs) ==
    LET names == {rs[i].name \o "/" \o b : i \in 1..Len(rs), b \in BranchNames}
    IN [x \in names |-> 1]

NoRefs == [x \in {} |-> 1]

EmptyMemory ==
    /\ expCache = <<>>
    /\ diffCache = <<>>
    /\ computed = <<>>
    /\ expRet = <<>>
    /\ diffRet = <<>>
    /\ pairRet = <<>>
    /\ steps = 0
    /\ call = NoCall

Init ==
    /\ \/ /\ remotes = Named(<<"git@github.com:10gen/mongo.git">>)
          /\ branches = <<"master">>
       \/ /\ remotes = Named(<<"/home/user/mongo">>)
          /\ branches = <<"feature">>
    /\ refs = Tracking(remotes)
    /\ head \in {1, 2}
    /\ worktree = 1
    /\ index = 0
    /\ file \in [Paths -> {Absent, OnDisk(Patch), OnDisk(Waterfall)}]
    /\ EmptyMemory
    /\ InstallAtRest

DiffCalls ==
    {[args |-> <<>>, kwds |-> <<>>],
     [args |-> <<PyNone, PyNone>>, kwds |-> <<>>],
     [args |-> <<PyStr("exp.yml"), PyNone>>, kwds |-> <<>>],
     [args |-> <<>>, kwds |-> <<[name |-> "expansions_file", val |-> PyStr("exp.yml")]>>]}

Next ==
    \/ \E path \in {PyNone, PyStr(""), PyStr("exp.yml")} : GetExpansions(path)
    \/ \E c \in DiffCalls : GetDiffRevision(c)
    \/ \E ef \in {PyNone, PyStr("exp.yml")} : GetChangedFiles("get_changed_files", ef, PyNone, "d")
    \/ \E ef \in {PyNone, PyStr("exp.yml")} : GetChangedFiles("get_new_files", ef, PyNone, "ARC")
    \/ GetRemoteBranchRef(PyNone)
    \/ GetMongodbRemote
    \/ \E f \in {"a.py", "new.py"}, rev \in {"c1", "bogus"}, onDisk \in BOOLEAN :
          GetFileAtRevision(f, rev, onDisk)
    \/ Commit
    \/ EditWorkTree
    \/ \E path \in Paths, d \in Contents : WriteFile(path, d)
    \/ \E path \in Paths : DeleteFile(path)

Spec == Init /\ [][Next]_vars

(***************************************************************************)
(* Specification of remote and branch selection, over the repositories     *)
(* the bounds allow                                                        *)
(***************************************************************************)
URLs ==
    {"https://github.com/other-org/x",
     "git@github.com:10gen/mongo",
     "https://github.com/mongodb/mongo.git",
     "ssh://git@github.com/MongoDB/mongo",
     "git@myhost:mongo.git",
     "/home/user/mongo",
     "/srv/10gen/mongo"}

SeqsUpTo(S, n) == UNION {[1..k -> S] : k \in 0..n}

InitRepo ==
    /\ \/ /\ remotes \in {Named(urls) : urls \in SeqsUpTo(URLs, MaxRemotes)}
          /\ branches = <<"master">>
          /\ refs = Tracking(remotes)
       \/ /\ remotes = Named(<<"git@github.com:10gen/mongo">>)
          /\ branches \in SeqsUpTo(BranchNames, MaxBranches)
          /\ refs \in {Tracking(remotes), NoRefs}
    /\ head = 2
    /\ worktree = 1
    /\ index = 0
    /\ file = [p \in Paths |-> Absent]
    /\ EmptyMemory
    /\ InstallAtRest

NextRepo ==
    \/ GetMongodbRemote
    \/ \E b \in {PyNone, PyStr("feature")} : GetRemoteBranchRef(b)

SpecRepo == InitRepo /\ [][NextRepo]_vars

(***************************************************************************)
(* Claims about remote selection                                           *)
(***************************************************************************)
\* A URL as the claims describe the preferred remotes: it starts with a
\* network scheme, and the text after the last ':' of its second-to-last
\* '/'-separated segment (a trailing .git stripped) is an allow-listed
\* organization.
NetworkScheme(url) ==
    \/ StartsWith(url, "http://")
    \/ StartsWith(url, "https://")
    \/ StartsWith(url, "ssh://")
    \/ StartsWith(url, "git@")

Segments(url) ==
    Split(IF EndsWith(url, ".git") THEN SubSeq(url, 1, Len(url) - 4) ELSE url, "/")

AllowListed(url) ==
    /\ NetworkScheme(url)
    /\ Len(Segments(url)) >= 2
    /\ \E o \in {"10gen", "mongodb", "evergreen-ci", "mongodb-ets", "realm", "mongodb-js"} :
          LET seg == Split(Segments(url)[Len(Segments(url)) - 1], ":") IN seg[Len(seg)] = o

FirstAllowListed(rs) ==
    CHOOSE i \in 1..Len(rs) :
        AllowListed(rs[i].url) /\ \A j \in 1..(i - 1) : ~AllowListed(rs[j].url)

\* C2 (as stated): in a repository with at least one remote, none of them a
\* network remote of an allow-listed owner, get_mongodb_remote returns the
\* first configured remote and does not raise.
C2_FallbackToFirstRemote ==
    (/\ call.op = "get_mongodb_remote"
     /\ Len(remotes) >= 1
     /\ \A i \in 1..Len(remotes) : ~AllowListed(remotes[i].url))
    => (call.kind = "return" /\ call.remote = remotes[1])

\* C5 (as stated): whenever some remote is a network remote of an
\* allow-listed owner, get_mongodb_remote returns the first such remote in
\* configured order, whatever the remotes before it are.
C5_FirstAllowListedAlways ==
    (/\ call.op = "get_mongodb_remote"
     /\ \E i \in 1..Len(remotes) : AllowListed(remotes[i].url))
    => (call.kind = "return" /\ call.remote = remotes[FirstAllowListed(remotes)])

\* C5 (amended): whenever some remote is a network remote of an allow-listed
\* owner and every network-scheme remote before the first such one has a '/'
\* in its URL, get_mongodb_remote returns that first such remote.
C5_FirstAllowListed ==
    (/\ call.op = "get_mongodb_remote"
     /\ \E i \in 1..Len(remotes) : AllowListed(remotes[i].url)
     /\ \A j \in 1..(FirstAllowListed(remotes) - 1) :
           NetworkScheme(remotes[j].url) => Len(Segments(remotes[j].url)) >= 2)
    => (call.kind = "return" /\ call.remote = remotes[FirstAllowListed(remotes)])

\* C5's case: origin is a network remote of another owner, upstream is
\* picked.
C5_Witness ==
    /\ call.op = "get_mongodb_remote"
    /\ remotes = Named(<<"https://github.com/other-org/x", "git@github.com:10gen/mongo">>)
    /\ call.kind = "return"
    /\ call.remote.name = "upstream"

(***************************************************************************)
(* Claims about branch inference                                           *)
(***************************************************************************)
IsDefaultBranch(b) == b = "main" \/ b = "master"

FirstDefaultBranch(bs) ==
    CHOOSE i \in 1..Len(bs) : IsDefaultBranch(bs[i]) /\ \A j \in 1..(i - 1) : ~IsDefaultBranch(bs[j])

\* C3 (as stated): called without a branch, get_remote_branch_ref uses the
\* first local branch named main or master, and when no local branch has
\* either name it raises 'Could not infer correct branch name' before
\* selecting a remote or looking up a reference.
C3_BranchInference ==
    (call.op = "get_remote_branch_ref" /\ call.br = PyNone)
    => IF \E i \in 1..Len(branches) : IsDefaultBranch(branches[i])
       THEN /\ call.msg # "Could not infer correct branch name"
            /\ Len(call.trace) >= 2
               => \E r \in 1..Len(remotes) :
                      call.trace[2] = "refs[" \o remotes[r].name \o "/"
                                         \o branches[FirstDefaultBranch(branches)] \o "]"
       ELSE /\ call.kind = "raise"
            /\ call.exc = "RuntimeError"
            /\ call.msg = "Could not infer correct branch name"
            /\ call.trace = <<>>

(***************************************************************************)
(* Claims about the diff revision                                          *)
(***************************************************************************)
DiffOps == {"get_diff_revision", "get_changed_files", "get_new_files"}

\* The step is a call (the world's steps leave `call` alone).
IsCall == call'.n # call.n

\* C4 (as stated): for each (expansions_file, branch) pair the revision
\* computation is executed at most once, and every call with that pair returns
\* the revision the pair's first returning call returned.
C4_OncePerPair ==
    /\ \A p \in DOMAIN computed : computed[p] <= 1
    /\ (call.op \in DiffOps /\ call.kind = "return" /\ <<call.ef, call.br>> \in DOMAIN pairRet)
       => call.value = pairRet[<<call.ef, call.br>>]

\* C4 (amended): for each call signature of get_diff_revision (the positional
\* and keyword arguments as passed; get_changed_files and get_new_files pass
\* both positionally), once a call has returned a revision, every later call
\* with that signature returns the same revision and executes no revision
\* computation, whatever happened to the repository in between.
C4_OncePerSignature ==
    [][\A k \in DOMAIN diffRet :
          (IsCall /\ call'.op \in DiffOps /\ call'.key = k)
          => /\ call'.kind = "return"
             /\ call'.value = diffRet[k]
             /\ ~Computes(call'.trace)
             /\ computed' = computed]_vars

\* C4's case: a waterfall revision resolved at HEAD = 2 is returned again
\* after a commit, although HEAD^1 is now another commit.
C4_Witness ==
    /\ call.op \in DiffOps
    /\ call.n = steps
    /\ call.hit
    /\ call.ef = PyStr("exp.yml")
    /\ call.value = Sha(1)
    /\ head = 3
    /\ file["exp.yml"] = OnDisk(Waterfall)

\* C6: a get_diff_revision computation whose expansions (as get_expansions
\* yields them) have a truthy is_patch and a non-empty string revision r
\* stages the working tree, returns exactly r, and runs neither merge-base
\* nor rev-parse.
C6_PatchRun ==
    (/\ call.op = "get_diff_revision"
     /\ ~call.hit
     /\ call.ef # PyNone
     /\ call.exp.t = "dict"
     /\ Truthy(call.exp.is_patch)
     /\ call.exp.revision.t = "str"
     /\ call.exp.revision.v # "")
    => /\ call.kind = "return"
       /\ call.value = call.exp.revision.v
       /\ InTrace(call.trace, "git add .")
       /\ ~InTrace(call.trace, "merge_base")
       /\ ~InTrace(call.trace, "git rev-parse HEAD^1")
       /\ call.n = steps => index = worktree

\* C6's case: the patch run of the claim, with revision abc123.
C6_Witness ==
    /\ call.op = "get_diff_revision"
    /\ call.n = steps
    /\ ~call.hit
    /\ call.exp = Patch
    /\ call.value = "abc123"
    /\ index = worktree

\* C7: the index changes, and git add runs, only in a step that is a diff
\* revision computation whose expansions have a truthy is_patch; no call
\* changes the working tree.
C7_StagingConfined ==
    [][/\ (index' # index \/ (IsCall /\ InTrace(call'.trace, "git add .")))
          => /\ IsCall
             /\ call'.op \in DiffOps
             /\ ~call'.hit
             /\ call'.ef # PyNone
             /\ Truthy(call'.exp.is_patch)
       /\ IsCall => worktree' = worktree]_vars

\* C7's case: a patch run has staged the working tree.
C7_Witness ==
    /\ call.n = steps
    /\ InTrace(call.trace, "git add .")
    /\ index = worktree
    /\ index # 0

(***************************************************************************)
(* Claims about get_file_at_revision                                       *)
(***************************************************************************)
\* C8 (as stated): get_file_at_revision returns None exactly when git show
\* failed because the path does not exist at the revision; it returns the
\* content when the path exists there, and raises on any other failure.
C8_NoneIffPathAbsent ==
    call.op = "get_file_at_revision"
    => /\ (call.kind = "return" /\ call.content = PyNone)
          <=> (ValidRev(call.revision) /\ call.file \notin Tree(call.revision))
       /\ (ValidRev(call.revision) /\ call.file \in Tree(call.revision))
          => (call.kind = "return" /\ call.content = PyStr(Blob(call.file, call.revision)))
       /\ ~ValidRev(call.revision) => call.kind = "raise"

BazeliskURL == "https://mdb-build-public.s3.amazonaws.com/bazelisk-binaries/v1.19.0/bazelisk-"

_S3_HASH_MAPPING ==
    (BazeliskURL \o "darwin-amd64") :> "f2ba5f721a995b54bab68c6b76a340719888aa740310e634771086b6d1528ecd"
    @@ (BazeliskURL \o "darwin-arm64") :> "69fa21cd2ccffc2f0970c21aa3615484ba89e3553ecce1233a9d8ad9570d170e"
    @@ (BazeliskURL \o "linux-amd64") :> "d28b588ac0916abd6bf02defb5433f6eddf7cba35ffa808eabb65a44aab226f7"
    @@ (BazeliskURL \o "linux-arm64") :> "861a16ba9979613e70bd3d2f9d9ab5e3b59fe79471c5753acdc9c431ab6c9d94"
    @@ (BazeliskURL \o "windows-amd64.exe") :> "d04555245a99dfb628e33da24e2b9198beb8f46d7e7661c313eb045f6a59f5e4"

BUILDOZER_RELEASE_URL == "https://github.com/bazelbuild/buildtools/releases/download/v7.3.1/"

\* The bytes published at a URL.
Genuine(url) == "release at " \o url

\* _sha256_file: the digest of a file's content; the published bytes of a
\* pinned URL have the pinned digest, any other content another digest.
_sha256_file(content) ==
    IF \E url \in DOMAIN _S3_HASH_MAPPING : content = Genuine(url)
    THEN _S3_HASH_MAPPING[CHOOSE url \in DOMAIN _S3_HASH_MAPPING : content = Genuine(url)]
    ELSE "sha256 of " \o content

\* determine_architecture(): None is "".
determine_architecture(m) ==
    IF m \in {"AMD64", "x86_64"} THEN "amd64"
    ELSE IF m \in {"arm", "arm64", "aarch64"} THEN "arm64"
    ELSE ""

\* platform.machine().lower().replace("aarch64", "arm64").replace("x86_64", "amd64")
normalized_arch(m) ==
    CASE m \in {"x86_64", "X86_64"} -> "amd64"
      [] m \in {"aarch64", "AARCH64"} -> "arm64"
      [] m = "AMD64" -> "amd64"
      [] OTHER -> m

is_bazelisk_supported(m) == normalized_arch(m) \notin {"ppc64le", "s390x"}

\* The launcher's URL on linux (sys.platform is "linux", the extension empty).
s3_path(m) == BazeliskURL \o "linux" \o "-" \o normalized_arch(m)

buildozer_url(m) == BUILDOZER_RELEASE_URL \o "buildozer-linux-" \o determine_architecture(m)

\* range(5), and the test `i == 4` that re-raises.
InRange(i) == i < 5

\* IsLastAttempt testing `i == 5`, an index range(5) never reaches.
IsLastAttemptOffByOne(i) == i = 5

IsLastAttempt(i) == i = 4

RetryDelay == 3

StartDownload(url, target) ==
    [url |-> url, target |-> target, i |-> 0, ok |-> 0, failed |-> 0, sleeps |-> 0,
     slept |-> 0, status |-> "running"]

\* urlretrieve writing bytes at a path: a new file is not executable, an
\* existing one keeps its mode.
Written(old, bytes) == [exists |-> TRUE, content |-> bytes, exec |-> old.exists /\ old.exec]

\* What one urlretrieve may do: fetch the published bytes, fetch other bytes,
\* fail before writing, or fail after writing part of the file.
Fetches ==
    {[ok |-> TRUE, bytes |-> "published"], [ok |-> TRUE, bytes |-> "other bytes"],
     [ok |-> FALSE, bytes |-> ""], [ok |-> FALSE, bytes |-> "partial bytes"]}

BytesOf(r, url) == IF r.bytes = "published" THEN Genuine(url) ELSE r.bytes

\* The file at the download's path after the attempt r.
AfterFetch(old, r, url) == IF r.bytes = "" THEN old ELSE Written(old, BytesOf(r, url))

\* _set_bazel_permissions, and the chmod of install_buildozer: both grant
\* the owner execute permission.
Chmod(f) == [f EXCEPT !.exec = TRUE]

\* install_bazel is called: install_buildozer runs first, and downloads
\* unless the architecture is unknown.
CallInstallBazel ==
    /\ pc = "idle"
    /\ outcome' = "running"
    /\ IF determine_architecture(machine) = ""
       THEN pc' = "check" /\ UNCHANGED dl
       ELSE pc' = "fetch_buildozer" /\ dl' = StartDownload(buildozer_url(machine), "buildozer")
    /\ UNCHANGED <<machine, bazelisk, buildozer>>
    /\ UNCHANGED gitVars

\* One pass of the loop of _download_path_with_retry: a urlretrieve that
\* returns ends the call; one that raises ends it on the last pass and
\* otherwise leads to the sleep.
Attempt(r) ==
    /\ pc \in {"fetch_buildozer", "fetch_bazelisk"}
    /\ dl.status = "running"
    /\ dl' = [dl EXCEPT !.ok = IF r.ok THEN @ + 1 ELSE @,
                        !.failed = IF r.ok THEN @ ELSE @ + 1,
                        !.status = IF r.ok THEN "returned"
                                   ELSE IF IsLastAttempt(dl.i) THEN "raised" ELSE "sleeping"]
    /\ IF pc = "fetch_buildozer"
       THEN /\ buildozer' = AfterFetch(buildozer, r, dl.url)
            /\ UNCHANGED bazelisk
       ELSE /\ bazelisk' = AfterFetch(bazelisk, r, dl.url)
            /\ UNCHANGED buildozer
    /\ UNCHANGED <<machine, pc, outcome>>
    /\ UNCHANGED gitVars

\* time.sleep(3) and `continue`: the next pass, or the end of the loop.
Backoff ==
    /\ pc \in {"fetch_buildozer", "fetch_bazelisk"}
    /\ dl.status = "sleeping"
    /\ dl' = [dl EXCEPT !.sleeps = @ + 1, !.slept = @ + RetryDelay, !.i = @ + 1,
                        !.status = IF InRange(dl.i + 1) THEN "running" ELSE "returned"]
    /\ UNCHANGED <<machine, bazelisk, buildozer, pc, outcome>>
    /\ UNCHANGED gitVars

\* The download raised: the exception leaves install_bazel.
DownloadRaised ==
    /\ pc \in {"fetch_buildozer", "fetch_bazelisk"}
    /\ dl.status = "raised"
    /\ pc' = "idle"
    /\ outcome' = "download failed"
    /\ UNCHANGED <<machine, bazelisk, buildozer, dl>>
    /\ UNCHANGED gitVars

\* install_buildozer after its download returned: os.chmod, then back in
\* install_bazel.
BuildozerDone ==
    /\ pc = "fetch_buildozer"
    /\ dl.status = "returned"
    /\ IF buildozer.exists
       THEN buildozer' = Chmod(buildozer) /\ pc' = "check" /\ UNCHANGED outcome
       ELSE pc' = "idle" /\ outcome' = "FileNotFoundError" /\ UNCHANGED buildozer
    /\ UNCHANGED <<machine, bazelisk, dl>>
    /\ UNCHANGED gitVars

\* `if os.path.exists(binary_path)`: an existing file is made executable and
\* returned; otherwise the launcher is downloaded, or bazelisk.py copied on
\* an unsupported architecture.
CheckExists ==
    /\ pc = "check"
    /\ IF bazelisk.exists
       THEN /\ bazelisk' = Chmod(bazelisk)
            /\ pc' = "idle"
            /\ outcome' = "returned"
            /\ UNCHANGED dl
       ELSE IF is_bazelisk_supported(machine)
       THEN /\ pc' = "fetch_bazelisk"
            /\ dl' = StartDownload(s3_path(machine), "bazelisk")
            /\ UNCHANGED <<bazelisk, outcome>>
       ELSE /\ bazelisk' = Chmod(Written(bazelisk, "bazel/bazelisk.py"))
            /\ pc' = "idle"
            /\ outcome' = "returned"
            /\ UNCHANGED dl
    /\ UNCHANGED <<machine, buildozer>>
    /\ UNCHANGED gitVars

\* _verify_s3_hash, then _set_bazel_permissions and the return.
Verify ==
    /\ pc = "fetch_bazelisk"
    /\ dl.status = "returned"
    /\ pc' = "idle"
    /\ IF ~bazelisk.exists
       THEN outcome' = "FileNotFoundError" /\ UNCHANGED bazelisk
       ELSE IF dl.url \notin DOMAIN _S3_HASH_MAPPING
       THEN outcome' = "KeyError" /\ UNCHANGED bazelisk
       ELSE IF _sha256_file(bazelisk.content) # _S3_HASH_MAPPING[dl.url]
       THEN outcome' = "Hash mismatch" /\ UNCHANGED bazelisk
       ELSE outcome' = "returned" /\ bazelisk' = Chmod(bazelisk)
    /\ UNCHANGED <<machine, buildozer, dl>>
    /\ UNCHANGED gitVars

GitAtRest ==
    /\ remotes = <<>>
    /\ branches = <<>>
    /\ refs = NoRefs
    /\ head = 1
    /\ worktree = 0
    /\ index = 0
    /\ file = [p \in Paths |-> Absent]
    /\ EmptyMemory

InitInstall ==
    /\ machine \in {"x86_64", "aarch64", "ppc64le"}
    /\ bazelisk = NoFile
    /\ buildozer = NoFile
    /\ pc = "idle"
    /\ dl = NoDownload
    /\ outcome = "none"
    /\ GitAtRest

NextInstall ==
    \/ CallInstallBazel
    \/ \E r \in Fetches : Attempt(r)
    \/ Backoff
    \/ DownloadRaised
    \/ BuildozerDone
    \/ CheckExists
    \/ Verify

SpecInstall == InitInstall /\ [][NextInstall]_vars

(***************************************************************************)
(* Claims about the bootstrapper                                           *)
(***************************************************************************)
\* C1 (as stated): a launcher download whose bytes do not have the digest
\* pinned for its URL makes install_bazel raise, and no sequence of
\* install_bazel calls on the directory leaves at <dir>/bazelisk an
\* executable file of downloaded bytes that do not have the pinned digest.
C1_NoUnverifiedLauncher ==
    /\ (pc = "idle" /\ outcome = "returned" /\ dl.target = "bazelisk")
       => _sha256_file(bazelisk.content) = _S3_HASH_MAPPING[dl.url]
    /\ (bazelisk.exists /\ bazelisk.exec)
       => \/ bazelisk.content = "bazel/bazelisk.py"
          \/ \E url \in DOMAIN _S3_HASH_MAPPING :
                _sha256_file(bazelisk.content) = _S3_HASH_MAPPING[url]

\* C9: a _download_path_with_retry call makes at most 5 attempts; it returns
\* only after an attempt that succeeded, which is its last; it has slept the
\* fixed delay once after each failed attempt but the fifth; and it raises
\* only after 5 failed attempts.
C9_DownloadRetry ==
    /\ dl.ok + dl.failed <= 5
    /\ dl.ok <= 1
    /\ dl.slept = 3 * dl.sleeps
    /\ dl.status = "running" => (dl.ok = 0 /\ dl.sleeps = dl.failed /\ dl.failed < 5)
    /\ dl.status = "sleeping" => (dl.ok = 0 /\ dl.sleeps + 1 = dl.failed /\ dl.failed < 5)
    /\ dl.status = "returned" => (dl.ok = 1 /\ dl.sleeps = dl.failed)
    /\ dl.status = "raised" => (dl.ok = 0 /\ dl.failed = 5 /\ dl.sleeps = 4)

\* C9's case: four failed attempts, four sleeps, and the fifth attempt
\* succeeds.
C9_Witness ==
    /\ dl.status = "returned"
    /\ dl.failed = 4
    /\ dl.sleeps = 4
    /\ dl.ok = 1

====
